---- MODULE Spec2Model ----
(***************************************************************************)
(* Room session engine of tg-skribbl-backend: the room registry, the turn  *)
(* scheduler with its cancellable timers, and the socket handlers that     *)
(* drive one room (server.js handlers and domain/rooms.js).                *)
(*                                                                         *)
(* One room code is modelled; the registry holds it or not.  Every macro-  *)
(* task of the Node event loop (a socket handler up to its first real      *)
(* suspension, a timer callback, the continuation of an await) is one      *)
(* action.  Timer firings are not ordered by a clock: any live timer may   *)
(* fire at any moment.                                                     *)
(***************************************************************************)
EXTENDS Integers, Sequences, FiniteSets, TLC

NULL == "null"
\* a null/absent word or hint (a string is the sequence of its characters)
NoWord == <<>>

\* connections (socket ids) that may talk to the server
Sock == {"s1", "s2", "s3"}
\* the Telegram identities (tgId) a join may carry; NULL is a join without one
TgIds == {"t1"}

\* ---- bounds of the model ------------------------------------------------
\* DEFAULTS.roundTime (75 s) and the 20 s floor of beginDrawingPhase, scaled
\* down so that a drawing phase is a handful of ticks
roundTime == 2
minTurnTime == 1
\* MAX_PLAYERS (environment, default 12), scaled to the number of connections
MAX_PLAYERS == 3
\* rounds of a game that are followed when all three connections take part
MaxRound == 2
\* pending delayed end-of-turn callbacks of the chat handler
MaxMinDraw == 1
\* a correct guess is modelled only while every score stays within this
MaxScore == 122
\* game_over events counted
MaxGameOvers == 2
\* createRateLimiter({ count, windowMs }) as the limiter is exercised, and the
\* last value of Date.now() followed (milliseconds from the first call on)
count == 2
windowMs == 2
MaxClock == 4

\* ---- program constants --------------------------------------------------
maxRounds == 3
guessBase == 100
drawerBonus == 20

\* ---- words --------------------------------------------------------------
\* a word is the sequence of its characters
ox == <<"o", "x">>
ax == <<"a", "x">>
zz == <<"z", "z">>
\* the static seed list of the word cache, cut to three entries (like the
\* list, which holds 'butterfly' twice, it holds a word twice)
cachedWords == <<ox, ax, ox>>
\* words a client may send in choose_word or as chat text
WordInputs == {ox, ax, zz}

Range(s) == {s[i] : i \in DOMAIN s}
Max(a, b) == IF a >= b THEN a ELSE b
Min(a, b) == IF a <= b THEN a ELSE b
\* arr[i] of a JavaScript array, 0-based; undefined is NULL
At(arr, i) == IF i + 1 \in DOMAIN arr THEN arr[i + 1] ELSE NULL
\* arr.filter(x => x \in keep), order preserved
RECURSIVE Filter(_, _)
Filter(arr, keep) ==
  IF arr = <<>> THEN <<>>
  ELSE (IF Head(arr) \in keep THEN <<Head(arr)>> ELSE <<>>) \o Filter(Tail(arr), keep)
\* arr.indexOf(x), 0-based, -1 when absent
IndexOf(arr, x) ==
  IF x \in Range(arr) THEN (CHOOSE i \in DOMAIN arr : arr[i] = x /\ \A j \in 1..(i - 1) : arr[j] # x) - 1
  ELSE -1
\* arr.splice(i, 1) and arr.splice(i, 0, x), 0-based
RemoveAt(arr, i) == SubSeq(arr, 1, i) \o SubSeq(arr, i + 2, Len(arr))
InsertAt(arr, i, x) == SubSeq(arr, 1, i) \o <<x>> \o SubSeq(arr, i + 1, Len(arr))
\* the handle setInterval/setTimeout returns: the least id no live timer has
Fresh(ids) == CHOOSE i \in 1..(Cardinality(ids) + 1) : i \notin ids /\ \A j \in 1..(i - 1) : j \in ids

\* ---- words.js -----------------------------------------------------------
maskWord(word, revealed) ==
  [i \in DOMAIN word |-> IF word[i] = " " THEN " " ELSE IF i \in revealed THEN word[i] ELSE "_"]

\* every result randomChoices(arr, n) can return: n picks (or all of arr)
\* from distinct positions, in the order picked
RECURSIVE PickSeqs(_, _, _)
PickSeqs(arr, idx, n) ==
  IF n = 0 \/ idx = {} THEN {<<>>}
  ELSE UNION {{<<arr[i]>> \o rest : rest \in PickSeqs(arr, idx \ {i}, n - 1)} : i \in idx}
randomChoices(arr, n) == PickSeqs(arr, DOMAIN arr, n)

\* ---- scoring.js ---------------------------------------------------------
guessScoreForTime(timer) == guessBase + Max(0, timer)

\* ---- security/rateLimit.js ----------------------------------------------
\* the limiter instances followed: two of the five a connection creates
Limiters == {"chatLimiter", "roomJoinLimiter"}

\* faulty variant: timestamps are never dropped
keepOld(times, now) == times
\* while (times.length && now - times[0] > windowMs) times.shift()
RECURSIVE shiftOld(_, _)
shiftOld(times, now) ==
  IF times # <<>> /\ now - Head(times) > windowMs THEN shiftOld(Tail(times), now) ELSE times

\* faulty variant: a denied call is recorded too
limiterAllowCounting(times, now) ==
  LET kept == shiftOld(times, now)
  IN [ok |-> Len(kept) < count, times |-> Append(kept, now)]
\* allow(): its answer and the closure's `times` array after the call
limiterAllow(times, now) ==
  LET kept == shiftOld(times, now)
  IN IF Len(kept) >= count THEN [ok |-> FALSE, times |-> kept]
     ELSE [ok |-> TRUE, times |-> Append(kept, now)]

\* ---- state --------------------------------------------------------------
VARIABLES
  rooms,        \* the registry entry of the code: "absent", "present", "deleted"
  room,         \* the room object (it outlives its registry entry in closures)
  live,         \* the event loop: timers armed and not cancelled nor (one-shot) fired
  pendingTurn,  \* startTurn's continuation waits for the word cache refresh (isLoadingWords)
  gone,         \* connections that are closed for good: one that never connects, and
                \* a disconnected one the room still names (a later connection never
                \* gets such an id again; any other id stands for the next connection)
  gameOvers,    \* history: number of game_over events emitted so far
  lim,          \* the rate limiters: .clock is Date.now(), .times[i] the array of
                \* limiter i, and history: .admitted[i] every timestamp limiter i
                \* admitted, .denied[i] whether it ever refused a call
  joining,      \* connections whose join_room waits for the store's answer
  guessing,     \* connections whose chat handler, having credited a correct guess,
                \* waits for the store's score updates
  removing,     \* connections whose leave_room or disconnecting handler, having
                \* emptied the room, waits for the store's write before
                \* rooms.delete
  probe,        \* a call of a pure helper on its own: .guess and .word, the
                \* arguments of isCloseGuess, and .res, what the call returned
                \* ("none" before the call)
  scope         \* what a behaviour follows: .rounds, the last round followed,
                \* .scores, whether the scores are carried from step to step (no
                \* branch of the engine reads a score: they are only added to and
                \* sent), .maxPlayers, the value MAX_PLAYERS is configured to,
                \* and .refresh, whether the word cache may be found stale

vars == <<rooms, room, live, pendingTurn, gone, gameOvers, lim, joining, guessing, scope, probe, removing>>

\* createRoom's object literal; playerOrder and the timer handles are undefined
NewRoom ==
  [players |-> <<>>, guessed |-> {}, score |-> [s \in Sock |-> 0],
   hasOrder |-> FALSE, playerOrder |-> <<>>,
   drawerIndex |-> 0, round |-> 1, currentWord |-> NoWord, hint |-> NoWord,
   phase |-> "waiting", timer |-> 0, choices |-> {}, hostId |-> NULL,
   tgId |-> [s \in Sock |-> NULL], hostTgId |-> NULL,
   tickHandle |-> 0, hintHandle |-> 0, intermissionHandle |-> 0]

\* tick, inter: the handles of the live tick intervals and intermission timeouts;
\* hint: the live hint intervals with what their closures hold; minDraw: how many
\* delayed end-of-turn timeouts of the chat handler are live, .now those armed in
\* the turn in progress and .past those armed in a turn before it (history: the
\* callback holds the room only)
NoTimers == [tick |-> {}, hint |-> {}, inter |-> {}, minDraw |-> [now |-> 0, past |-> 0]]

NoProbe == [guess |-> NoWord, word |-> NoWord, res |-> "none"]

NoCalls ==
  [clock |-> 0, times |-> [i \in Limiters |-> <<>>],
   admitted |-> [i \in Limiters |-> <<>>], denied |-> [i \in Limiters |-> FALSE]]

Init ==
  /\ lim = NoCalls /\ joining = {} /\ guessing = {} /\ probe = NoProbe /\ removing = {}
  /\ rooms = "absent"
  /\ room = NewRoom
  /\ live = NoTimers
  /\ pendingTurn = FALSE
  /\ gone = {}
  /\ gameOvers = 0
  /\ scope = [rounds |-> MaxRound, scores |-> FALSE, maxPlayers |-> MAX_PLAYERS,
              refresh |-> TRUE]

\* two connections only, followed to the end of the game and beyond
InitPair ==
  /\ lim = NoCalls /\ joining = {} /\ guessing = {} /\ probe = NoProbe /\ removing = {}
  /\ rooms = "absent"
  /\ room = NewRoom
  /\ live = NoTimers
  /\ pendingTurn = FALSE
  /\ gone = {"s3"}
  /\ gameOvers = 0
  /\ scope = [rounds |-> maxRounds + 1, scores |-> FALSE, maxPlayers |-> MAX_PLAYERS,
              refresh |-> TRUE]

\* an event: its name, its addressee (the room or one connection), its payload
Ev(name, to, x) == [ev |-> name, to |-> to, x |-> x]
Emit(w, name, to, x) == [w EXCEPT !.out = Append(@, Ev(name, to, x))]

\* the order the drawer is resolved from by rooms.js
Order(r) == IF r.hasOrder THEN r.playerOrder ELSE r.players
\* Array.from(room.players.keys())[room.drawerIndex], the drawer server.js resolves
KeyDrawer(r) == At(r.players, r.drawerIndex)

\* ---- rooms.js: the turn scheduler ---------------------------------------
\* The functions below map a world w = [room, live, out, cont] to the world
\* after the call: the room object, the live timers, the events emitted so
\* far in this step, and whether startTurn has queued its continuation.

World == [room |-> room, live |-> live, out |-> <<>>, cont |-> FALSE]

Snapshot(r) ==
  [phase |-> r.phase, players |-> r.players, score |-> r.score, guessed |-> r.guessed,
   round |-> r.round, drawerId |-> At(Order(r), r.drawerIndex), hint |-> r.hint,
   timer |-> r.timer, hostId |-> r.hostId]

broadcastRoomState(w) == Emit(w, "room_state", "room", Snapshot(w.room))

\* faulty variant: the scan begins at the current drawer (step 0)
getNextDrawerIndexFromZero(r) ==
  LET order == Order(r)
      n == Len(order)
      hits == {st \in 0..(n - 1) : At(order, (r.drawerIndex + st) % n) \in Range(r.players)}
  IN IF n = 0 \/ hits = {} THEN 0
     ELSE (r.drawerIndex + (CHOOSE st \in hits : \A o \in hits : st <= o)) % n

getNextDrawerIndex(r) ==
  LET order == Order(r)
      n == Len(order)
      hits == {st \in 1..n : At(order, (r.drawerIndex + st) % n) \in Range(r.players)}
  IN IF n = 0 \/ hits = {} THEN 0
     ELSE (r.drawerIndex + (CHOOSE st \in hits : \A o \in hits : st <= o)) % n

allGuessed(r) ==
  \A p \in Range(r.players) \ {At(Order(r), r.drawerIndex)} : p \in r.guessed

\* Math.max(20, Math.round(base * multipliers[(round - 1) % 3])), multipliers in percent
multipliers == <<100, 85, 70>>
turnTime(base, round) ==
  Max(minTurnTime, (base * multipliers[((round - 1) % 3) + 1] + 50) \div 100)

\* faulty variants: the handle is dropped and its timer left running
LeakTick(l, h) == l
LeakInter(l, h) == l

\* clearInterval / clearTimeout of a handle (0 is null/undefined: nothing to clear)
ClearTick(l, h) == [l EXCEPT !.tick = @ \ {h}]
ClearHint(l, h) == [l EXCEPT !.hint = {t \in @ : t.id # h}]
ClearInter(l, h) == [l EXCEPT !.inter = @ \ {h}]
\* a timeout that fires is live no longer
Expire(l, h) == [l EXCEPT !.inter = @ \ {h}]

\* startTurn up to the await: the phase change
startTurn(w) ==
  IF w.room.phase = "ended" THEN w
  ELSE [w EXCEPT !.room.phase = "choosing", !.room.currentWord = NoWord,
                 !.room.hint = NoWord, !.cont = TRUE,
                 \* a turn begins: the timeouts still live are of a turn before it
                 !.live.minDraw = [now |-> 0, past |-> @.now + @.past]]

\* startTurn after `await getRandomChoices(3)` returned c
startTurnResume(w, c) ==
  LET r1 == [w.room EXCEPT !.choices = Range(c)]
      drawerId == At(Order(r1), r1.drawerIndex)
      w1 == Emit([w EXCEPT !.room = r1], "turn_start", "room", drawerId)
      w2 == Emit(w1, "word_choices", drawerId, Range(c))
  IN [w2 EXCEPT !.room.guessed = {}, !.cont = FALSE]

\* revealHintOverTime: arms the hint interval, returns its handle
ArmHint(l, word) ==
  LET id == Fresh({t.id : t \in l.hint})
  IN [l EXCEPT !.hint = @ \cup {[id |-> id, word |-> word, toReveal |-> {}]}]
NewestHint(l, before) == CHOOSE i \in {t.id : t \in l.hint} : i \notin {t.id : t \in before.hint}

beginDrawingPhase(w, word) ==
  LET r == w.room
      r1 == [r EXCEPT !.currentWord = word, !.hint = maskWord(word, {}),
                      !.phase = "drawing", !.timer = turnTime(roundTime, r.round)]
      w1 == broadcastRoomState(Emit([w EXCEPT !.room = r1], "hint_update", "room", r1.hint))
      l1 == ClearInter(ClearTick(ClearHint(w.live, r.hintHandle), r.tickHandle), r.intermissionHandle)
      l2 == ArmHint(l1, word)
      tick == Fresh(l2.tick)
      l3 == [l2 EXCEPT !.tick = @ \cup {tick}]
  IN [w1 EXCEPT !.live = l3,
                !.room.intermissionHandle = 0,
                !.room.hintHandle = NewestHint(l2, l1),
                !.room.tickHandle = tick]

endTurn(w) ==
  LET r == w.room
      w1 == Emit([w EXCEPT !.room.phase = "intermission"], "turn_end", "room", r.currentWord)
      l1 == ClearInter(ClearHint(ClearTick(w.live, r.tickHandle), r.hintHandle), r.intermissionHandle)
      id == Fresh(l1.inter)
  IN [w1 EXCEPT !.live = [l1 EXCEPT !.inter = @ \cup {id}],
                !.room.tickHandle = 0, !.room.hintHandle = 0,
                !.room.intermissionHandle = id]

FinalScores(r) == [p \in Range(r.players) |-> r.score[p]]
GameOver(w) ==
  Emit([w EXCEPT !.room.phase = "ended"], "game_over", "room", FinalScores(w.room))

\* faulty variant: the game goes on with one player
TooFewNone(order) == Len(order) < 1
\* order.length < 2
TooFew(order) == Len(order) < 2

nextTurnOrRound(w) ==
  IF w.room.phase = "ended" THEN w
  ELSE
    LET order == Filter(Order(w.room), Range(w.room.players))
        r1 == [w.room EXCEPT !.playerOrder = order, !.hasOrder = TRUE]
        prevIndex == r1.drawerIndex
        r2 == [r1 EXCEPT !.drawerIndex = getNextDrawerIndex(r1)]
        wrapped == Len(order) > 1 /\ r2.drawerIndex <= prevIndex
        r3 == IF wrapped THEN [r2 EXCEPT !.round = @ + 1] ELSE r2
    IN IF TooFew(order) THEN GameOver([w EXCEPT !.room = r1])
       ELSE IF r3.round > maxRounds THEN GameOver([w EXCEPT !.room = r3])
       ELSE LET w3 == IF wrapped
                      THEN Emit([w EXCEPT !.room = r3], "round_started", "room", r3.round)
                      ELSE [w EXCEPT !.room = r3]
            IN startTurn(w3)

clearRoomTimers(w) ==
  LET r == w.room
  IN [w EXCEPT !.live = ClearInter(ClearHint(ClearTick(@, r.tickHandle), r.hintHandle),
                                   r.intermissionHandle),
               !.room.tickHandle = 0, !.room.hintHandle = 0,
               !.room.intermissionHandle = 0]

\* ---- server.js: helpers -------------------------------------------------
normalizeDrawerIndex(r) ==
  LET len == IF r.hasOrder THEN Len(r.playerOrder) ELSE Len(r.players)
  IN IF len <= 0 THEN [r EXCEPT !.drawerIndex = 0]
     ELSE IF r.drawerIndex >= len THEN [r EXCEPT !.drawerIndex = @ % len]
     ELSE IF r.drawerIndex < 0 THEN [r EXCEPT !.drawerIndex = 0]
     ELSE r

removeFromPlayerOrder(r, s) ==
  IF ~r.hasOrder THEN r
  ELSE LET idx == IndexOf(r.playerOrder, s)
           r1 == IF idx # -1
                 THEN [r EXCEPT !.playerOrder = RemoveAt(@, idx),
                                !.drawerIndex = IF @ >= idx THEN Max(0, @ - 1) ELSE @]
                 ELSE r
       IN normalizeDrawerIndex(r1)

applyLateJoinPolicy(r, s) ==
  IF r.phase # "waiting" /\ r.phase # "ended" /\ s \notin Range(Order(r))
  THEN [r EXCEPT !.playerOrder = InsertAt(Order(r), (r.drawerIndex + 1) % (Len(Order(r)) + 1), s),
                 !.hasOrder = TRUE]
  ELSE r

\* room.players.delete(s): the Map entry with its Player object goes
DeletePlayer(r, s) ==
  [r EXCEPT !.players = Filter(@, Sock \ {s}), !.guessed = @ \ {s}, !.score[s] = 0,
            !.tgId[s] = NULL]

\* the system chat notice sent to one connection or to the room
Notice(w, to, text) == Emit(w, "chat(system)", to, text)
AppError(w, s, code) == Emit(w, "app_error", s, code)

\* ---- server.js: socket handlers (no store configured: getRoomsCol() is null,
\* the db helpers return at once, so each handler runs to its end in one step)
\* faulty variant: a room is made anew even when the code has one
createRoomAnew(w) == NewRoom
\* createRoom(code): the room the registry has for the code, or a new one
createRoom(w) == IF rooms = "present" THEN w.room ELSE NewRoom

create_room(w, s, allow) ==
  IF ~allow THEN Notice(w, s, "Slow down: creating rooms too fast.")
  ELSE LET created == createRoom(w)
           r1 == IF created.hostId = NULL THEN [created EXCEPT !.hostId = s] ELSE created
           w1 == Notice([w EXCEPT !.room = r1], s, "Room created.")
       IN broadcastRoomState(Emit(w1, "room_created", s, "code"))

\* the connections other than s that hold the identity tg, in Map order
RECURSIVE EvictSame(_, _, _, _)
EvictSame(r, s, tg, ids) ==
  IF ids = <<>> THEN r
  ELSE LET sid == Head(ids)
           r1 == IF r.tgId[sid] # NULL /\ r.tgId[sid] = tg /\ sid # s
                 THEN DeletePlayer(r, sid) ELSE r
       IN EvictSame(r1, s, tg, Tail(ids))

\* faulty variant: the capacity is tested one player late
roomFullOnePast(r) == Len(r.players) > scope.maxPlayers
\* room.players.size >= MAX_PLAYERS
roomFull(r) == Len(r.players) >= scope.maxPlayers

\* join_room once the room is found and joinable (the same statements in the
\* store path and in the in-memory path): a member is refreshed; otherwise the
\* connections holding the same tgId are deleted from players, the capacity
\* is tested and the player is added; the statements after `await ensureUser`
\* (the late-join policy and the broadcast) touch neither players nor scores
\* and are run in the same step
joinMember(w, s, tg) ==
  LET r == w.room
  IN IF s \in Range(r.players)
     THEN broadcastRoomState([w EXCEPT !.room.tgId[s] = IF tg # NULL THEN tg ELSE @])
     ELSE LET r0 == IF tg = NULL THEN r ELSE EvictSame(r, s, tg, r.players)
          IN IF roomFull(r0)
             THEN Notice(AppError([w EXCEPT !.room = r0], s, "ROOM_FULL"), s, "Room is full.")
             ELSE LET r1 == [r0 EXCEPT !.players = Append(@, s), !.score[s] = 0,
                                       !.guessed = @ \ {s}, !.tgId[s] = tg]
                      r2 == applyLateJoinPolicy(r1, s)
                  IN Notice(broadcastRoomState([w EXCEPT !.room = r2]), "room", "joined.")

\* the in-memory path (no store configured), of a join that carries no tgId
join_room(w, s, allow) ==
  LET r == w.room
  IN IF ~allow THEN Notice(w, s, "Slow down: joining too fast.")
     ELSE IF rooms # "present" THEN AppError(Notice(w, s, "Room not found."), s, "ROOM_NOT_FOUND")
     ELSE IF r.phase # "waiting"
       THEN AppError(Notice(w, s, "Room not joinable."), s,
                     IF r.phase = "ended" THEN "ROOM_ENDED" ELSE "ROOM_NOT_WAITING")
     ELSE joinMember(w, s, NULL)

\* the store path after `await roomsCol.findOne` has answered a waiting room:
\* the host identity is reconciled, then the join proceeds on the room object
\* as it is now, whatever its phase
join_room_found(w, s, tg) ==
  LET r == createRoom(w)
      r1 == IF r.hostId = NULL THEN [r EXCEPT !.hostId = s] ELSE r
      r2 == IF r1.hostTgId = NULL /\ tg # NULL /\ s = r1.hostId
            THEN [r1 EXCEPT !.hostTgId = tg] ELSE r1
      r3 == IF r2.hostTgId # NULL /\ tg # NULL /\ r2.hostTgId = tg
            THEN [r2 EXCEPT !.hostId = s] ELSE r2
  IN joinMember([w EXCEPT !.room = r3], s, tg)

\* the store path when `await roomsCol.findOne` throws: the empty catch falls
\* through to the statements that follow a waiting room's answer
join_room_lookup_failed(w, s, tg) == join_room_found(w, s, tg)

leave_room(w, s) ==
  IF rooms # "present" THEN w
  ELSE LET r1 == removeFromPlayerOrder(DeletePlayer(w.room, s), s)
           w1 == broadcastRoomState(Notice([w EXCEPT !.room = r1], "room", "A player left."))
       IN IF Len(r1.players) = 0 THEN clearRoomTimers(w1) ELSE w1

\* faulty variant: any member may close
isHostByTgAnyMember(r, s) == s \in Range(r.players)
isHostById(r, s) == r.hostId # NULL /\ s = r.hostId
isHostByTg(r, s) ==
  r.hostTgId # NULL /\ s \in Range(r.players) /\ r.tgId[s] # NULL /\ r.hostTgId = r.tgId[s]

close_room(w, s) ==
  IF rooms # "present" THEN AppError(w, s, "ROOM_NOT_FOUND")
  ELSE IF ~(isHostById(w.room, s) \/ isHostByTg(w.room, s)) THEN AppError(w, s, "NOT_HOST")
  ELSE LET w1 == clearRoomTimers([w EXCEPT !.room.phase = "ended"])
       IN broadcastRoomState(Notice(w1, "room", "Room was closed by host."))

\* faulty variant: the phase is not looked at
start_game_any_phase(w, s, allow) ==
  IF ~allow THEN Notice(w, s, "Slow down: starting games too fast.")
  ELSE IF rooms # "present" THEN w
  ELSE IF Len(w.room.players) < 2 THEN w
  ELSE LET r1 == [w.room EXCEPT !.round = 1, !.drawerIndex = 0, !.phase = "choosing",
                                !.playerOrder = w.room.players, !.hasOrder = TRUE]
       IN Emit(startTurn([w EXCEPT !.room = r1]), "game_started", "room", "ok")

start_game(w, s, allow) ==
  IF ~allow THEN Notice(w, s, "Slow down: starting games too fast.")
  ELSE IF rooms # "present" THEN w
  ELSE IF Len(w.room.players) < 2 THEN w
  ELSE IF w.room.phase # "waiting" THEN w
  ELSE LET r1 == [w.room EXCEPT !.round = 1, !.drawerIndex = 0, !.phase = "choosing",
                                !.playerOrder = w.room.players, !.hasOrder = TRUE]
       IN Emit(startTurn([w EXCEPT !.room = r1]), "game_started", "room", "ok")

choose_word(w, s, word) ==
  IF rooms # "present" THEN w
  ELSE IF s # KeyDrawer(w.room) THEN w
  ELSE IF word \notin w.room.choices THEN w
  ELSE Emit(beginDrawingPhase(w, word), "word_chosen", s, "ok")

\* String.prototype.toLowerCase on the characters the inputs use
toLowerCase(str) ==
  [i \in DOMAIN str |-> IF str[i] = "O" THEN "o" ELSE IF str[i] = "A" THEN "a"
                        ELSE IF str[i] = "X" THEN "x" ELSE str[i]]

\* String.prototype.trim: leading and trailing blanks dropped
RECURSIVE trimStart(_)
trimStart(str) ==
  IF Len(str) > 0 /\ Head(str) = " " THEN trimStart(Tail(str)) ELSE str

RECURSIVE trimEnd(_)
trimEnd(str) ==
  IF Len(str) > 0 /\ str[Len(str)] = " " THEN trimEnd(SubSeq(str, 1, Len(str) - 1)) ELSE str

trim(str) == trimEnd(trimStart(str))

\* a faulty variant of the inner loop: the diagonal cell is not saved before
\* the row is overwritten, and is read from the cell just written
RECURSIVE dpColumnsOverwritten(_, _, _, _, _)
dpColumnsOverwritten(dp, prev, j, ch, b) ==
  IF j + 1 > Len(dp) THEN dp
  ELSE LET cell == Min(Min(dp[j + 1] + 1, dp[j] + 1),
                       dp[j] + (IF ch = b[j] THEN 0 ELSE 1))
       IN dpColumnsOverwritten([dp EXCEPT ![j + 1] = cell], prev, j + 1, ch, b)

\* the inner loop of isCloseGuess from column j on: dp is the single row
\* (dp[j] of the code is dp[j + 1] here), prev the saved diagonal cell, ch the
\* character a[i-1] of the row being computed
\* (the row has b.length + 1 cells: j <= b.length is j + 1 <= Len(dp))
RECURSIVE dpColumns(_, _, _, _, _)
dpColumns(dp, prev, j, ch, b) ==
  IF j + 1 > Len(dp) THEN dp
  ELSE LET temp == dp[j + 1]
           cell == Min(Min(dp[j + 1] + 1, dp[j] + 1),
                       prev + (IF ch = b[j] THEN 0 ELSE 1))
       IN dpColumns([dp EXCEPT ![j + 1] = cell], temp, j + 1, ch, b)

\* the outer loop of isCloseGuess from row i on
RECURSIVE dpRows(_, _, _, _)
dpRows(dp, i, a, b) ==
  IF i > Len(a) THEN dp
  ELSE dpRows(dpColumns([dp EXCEPT ![1] = i], dp[1], 1, a[i], b), i + 1, a, b)

\* the row before the first character of a: dp[j] = j for j = 0..n
RECURSIVE dpFirstRow(_)
dpFirstRow(n) == IF n = 0 THEN <<0>> ELSE Append(dpFirstRow(n - 1), n)

MAX_LEN == 40
isCloseGuess(guess, word) ==
  LET a == trim(toLowerCase(guess))
      b == trim(toLowerCase(word))
      maxClose == Max(1, (Len(b) * 25) \div 100)
      diff == IF Len(a) >= Len(b) THEN Len(a) - Len(b) ELSE Len(b) - Len(a)
      a1 == SubSeq(a, 1, Min(Len(a), MAX_LEN))
      b1 == SubSeq(b, 1, Min(Len(b), MAX_LEN))
  IN IF Len(a) = 0 \/ Len(b) = 0 THEN FALSE
     ELSE IF diff > maxClose THEN FALSE
     ELSE dpRows(dpFirstRow(Len(b1)), 1, a1, b1)[Len(b1) + 1] <= maxClose

\* the correct-guess branch of chat up to its first `await incrementScore`:
\* the guesser is marked and credited, the drawer server.js resolves gets the bonus
guessCredit(w, s) ==
  LET r == w.room
      guessScore == guessScoreForTime(r.timer)
      drawerId == KeyDrawer(r)
      r1 == [r EXCEPT !.guessed = @ \cup {s}, !.score[s] = @ + guessScore]
      r2 == IF drawerId \in Range(r.players)
            THEN [r1 EXCEPT !.score[drawerId] = @ + drawerBonus] ELSE r1
  IN [w EXCEPT !.room = r2]
\* the rest of the branch, after the awaits: the notices, the snapshot and the
\* all-guessed check (late: minDrawMs have passed since the turn started)
guessAnnounce(w, s, late) ==
  LET w1 == Notice(w, s, "You guessed the word!")
      w2 == broadcastRoomState(Notice(w1, "room", "guessed the word!"))
  IN IF ~allGuessed(w.room) THEN w2
     ELSE IF late THEN endTurn(w2)
     ELSE [w2 EXCEPT !.live.minDraw.now = @ + 1]

\* `late`: 4000 ms (minDrawMs) have passed since room._turnStartedAt
chat(w, s, text, allow, late) ==
  LET r == w.room
  IN IF rooms # "present" THEN w
     ELSE IF s \notin Range(r.players) THEN w
     ELSE IF ~allow THEN Notice(w, s, "You are sending messages too fast.")
     ELSE IF text = NoWord THEN w
     ELSE IF r.phase = "drawing" /\ r.currentWord # NoWord
             /\ s \notin r.guessed /\ toLowerCase(text) = toLowerCase(r.currentWord)
       THEN guessAnnounce(guessCredit(w, s), s, late)
     ELSE IF r.phase = "drawing" /\ r.currentWord # NoWord
             /\ s \notin r.guessed /\ isCloseGuess(text, r.currentWord)
       THEN Notice(w, s, "Close!")
     ELSE Emit(w, "chat", "room", text)

disconnecting(w, s) ==
  IF rooms # "present" \/ s \notin Range(w.room.players) THEN w
  ELSE LET wasDrawerId == KeyDrawer(w.room)
           r1 == removeFromPlayerOrder(DeletePlayer(w.room, s), s)
           w1 == broadcastRoomState(Notice([w EXCEPT !.room = r1], "room", "A player disconnected."))
           w2 == IF s = wasDrawerId /\ r1.phase \in {"drawing", "choosing"} THEN endTurn(w1) ELSE w1
       IN IF Len(r1.players) = 0 THEN clearRoomTimers(w2) ELSE w2

\* ---- timer callbacks ----------------------------------------------------
\* the setInterval callback of beginDrawingPhase, `tick` being its own handle
tickCallback(w, tick) ==
  IF w.room.phase # "drawing"
  THEN [w EXCEPT !.live = ClearTick(@, tick),
                 !.room.tickHandle = IF @ = tick THEN 0 ELSE @]
  ELSE LET w1 == Emit([w EXCEPT !.room.timer = @ - 1], "timer", "room", w.room.timer - 1)
       IN IF w1.room.timer <= 0 \/ allGuessed(w1.room)
          THEN endTurn([w1 EXCEPT !.live = ClearTick(@, tick)])
          ELSE w1

\* the setInterval callback of revealHintOverTime; t is the closure (its own
\* handle, the word it captured, the positions it has revealed), idx the
\* position Math.random picks among those left
HintIndices(t) == {i \in DOMAIN t.word : t.word[i] # " "} \ t.toReveal
hintCallback(w, t, idx) ==
  LET indices == HintIndices(t)
  IN IF w.room.phase # "drawing" \/ indices = {} THEN [w EXCEPT !.live = ClearHint(@, t.id)]
     ELSE LET t1 == [t EXCEPT !.toReveal = @ \cup {idx}]
              w1 == [w EXCEPT !.live.hint = (@ \ {t}) \cup {t1},
                              !.room.hint = maskWord(t.word, t1.toReveal)]
          IN Emit(w1, "hint_update", "room", w1.room.hint)

\* the setTimeout callback the chat handler arms when all guessed early
minDrawCallback(w, t) ==
  LET w1 == [w EXCEPT !.live.minDraw[t] = @ - 1]
  IN IF w1.room.phase = "drawing" THEN endTurn(w1) ELSE w1

\* ---- the steps of the event loop ----------------------------------------
GameOversIn(out) == Cardinality({i \in DOMAIN out : out[i].ev = "game_over"})

\* the state after a step that ran to world w; the bounds of the model are
\* guards on the result
Apply(w) ==
  /\ w.room.round <= scope.rounds
  /\ \A s \in Sock : w.room.score[s] <= MaxScore
  /\ w.live.minDraw.now + w.live.minDraw.past <= MaxMinDraw
  /\ gameOvers + GameOversIn(w.out) <= MaxGameOvers
  /\ room' = IF scope.scores THEN w.room ELSE [w.room EXCEPT !.score = NewRoom.score]
  /\ UNCHANGED <<scope, lim>>
  /\ live' = w.live
  /\ gameOvers' = gameOvers + GameOversIn(w.out)

\* the choices getRandomChoices(3) can return
ChoiceSeqs == randomChoices(cachedWords, 3)

\* A step that may have called startTurn.  `await getRandomChoices(3)` returns
\* within the same macrotask when the word cache is loading or within its
\* cooldown (refresh = FALSE); otherwise refreshWordCache sets isLoadingWords
\* and waits for the suppliers, and the continuation is a later step.
ApplyTurn(w, refresh) ==
  /\ refresh => scope.refresh
  /\ IF ~w.cont THEN Apply(w) /\ UNCHANGED pendingTurn
     ELSE IF refresh /\ ~pendingTurn THEN Apply([w EXCEPT !.cont = FALSE]) /\ pendingTurn' = TRUE
     ELSE \E c \in ChoiceSeqs :
            Apply(startTurnResume(w, c)) /\ UNCHANGED pendingTurn

Alive == Sock \ gone
\* connections are interchangeable: the one that creates the room is named s1
Creator == "s1"

\* A call that changes neither the room nor the timers (a refusal, a relay, a
\* repeated request) is a stuttering step.  The predicates below tell from the
\* state before the call which calls may change something; the steps draw
\* their inputs among those (IdleCallsChangeNothing checks the others).
create_room_acts(s, allow) == allow /\ rooms = "absent"
join_room_acts(s, allow) ==
  /\ allow /\ rooms = "present" /\ room.phase = "waiting"
  /\ s \notin Range(room.players) /\ Len(room.players) < scope.maxPlayers
leave_room_acts(s) == rooms = "present"
close_room_acts(s) == rooms = "present" /\ (isHostById(room, s) \/ isHostByTg(room, s))
start_game_acts(s, allow) ==
  allow /\ rooms = "present" /\ room.phase = "waiting" /\ Len(room.players) >= 2
choose_word_acts(s, word) ==
  rooms = "present" /\ s = KeyDrawer(room) /\ word \in room.choices
chat_acts(s, text, allow) ==
  /\ allow /\ rooms = "present" /\ s \in Range(room.players) \ room.guessed
  /\ room.phase = "drawing" /\ room.currentWord # NoWord
  /\ toLowerCase(text) = toLowerCase(room.currentWord)

CreateRoom ==
  \E s \in Alive, allow \in BOOLEAN :
    /\ s = Creator
    /\ create_room_acts(s, allow)
    /\ Apply(create_room(World, s, allow))
    /\ rooms' = "present"
    /\ UNCHANGED <<pendingTurn, gone, joining, guessing, probe, removing>>

JoinRoom ==
  \E s \in Alive, allow \in BOOLEAN :
    /\ join_room_acts(s, allow)
    /\ Apply(join_room(World, s, allow))
    /\ UNCHANGED <<rooms, pendingTurn, gone, joining, guessing, probe, removing>>

LeaveRoom ==
  \E s \in Alive :
    /\ leave_room_acts(s)
    /\ Apply(leave_room(World, s))
    /\ rooms' = IF Len(room'.players) = 0 THEN "deleted" ELSE rooms
    /\ UNCHANGED <<pendingTurn, gone, joining, guessing, probe, removing>>

CloseRoom ==
  \E s \in Alive :
    /\ close_room_acts(s)
    /\ Apply(close_room(World, s))
    /\ UNCHANGED <<rooms, pendingTurn, gone, joining, guessing, probe, removing>>

StartGame ==
  \E s \in Alive, allow \in BOOLEAN, refresh \in BOOLEAN :
    /\ start_game_acts(s, allow)
    /\ ApplyTurn(start_game(World, s, allow), refresh)
    /\ UNCHANGED <<rooms, gone, joining, guessing, probe, removing>>

ChooseWord ==
  \E s \in Alive, word \in WordInputs :
    /\ choose_word_acts(s, word)
    /\ Apply(choose_word(World, s, word))
    /\ UNCHANGED <<rooms, pendingTurn, gone, joining, guessing, probe, removing>>

\* `late`: minDrawMs has not elapsed while a timeout armed in this turn is
\* still to fire
Chat ==
  \E s \in Alive, text \in WordInputs, allow \in BOOLEAN, late \in BOOLEAN :
    /\ chat_acts(s, text, allow)
    /\ late => live.minDraw.now = 0
    /\ Apply(chat(World, s, text, allow, late))
    /\ UNCHANGED <<rooms, pendingTurn, gone, joining, guessing, probe, removing>>

Disconnect ==
  \E s \in Alive :
    /\ rooms = "present" /\ s \in Range(room.players)
    /\ Apply(disconnecting(World, s))
    /\ rooms' = IF Len(room'.players) = 0 THEN "deleted" ELSE rooms
    /\ gone' = IF s = room.hostId THEN gone \cup {s} ELSE gone
    /\ UNCHANGED <<pendingTurn, joining, guessing, probe, removing>>

Tick ==
  \E tick \in live.tick :
    /\ Apply(tickCallback(World, tick))
    /\ UNCHANGED <<rooms, pendingTurn, gone, joining, guessing, probe, removing>>

HintReveal ==
  \E t \in live.hint :
    \E idx \in (IF HintIndices(t) = {} THEN {0} ELSE HintIndices(t)) :
      /\ Apply(hintCallback(World, t, idx))
      /\ UNCHANGED <<rooms, pendingTurn, gone, joining, guessing, probe, removing>>

\* the setTimeout of endTurn fires: it is spent, then nextTurnOrRound runs
IntermissionDelay ==
  \E id \in live.inter, refresh \in BOOLEAN :
    /\ ApplyTurn(nextTurnOrRound([World EXCEPT !.live = Expire(@, id)]), refresh)
    /\ UNCHANGED <<rooms, gone, joining, guessing, probe, removing>>

MinDrawDelay ==
  \E t \in {"now", "past"} :
    /\ live.minDraw[t] > 0
    /\ Apply(minDrawCallback(World, t))
    /\ UNCHANGED <<rooms, pendingTurn, gone, joining, guessing, probe, removing>>

\* refreshWordCache returns: the continuation of startTurn runs
TurnChoices ==
  /\ pendingTurn
  /\ \E c \in ChoiceSeqs :
       /\ Apply(startTurnResume(World, c))
       /\ pendingTurn' = FALSE
       /\ UNCHANGED <<rooms, gone, joining, guessing, probe, removing>>

\* the setInterval(ROOM_CLEANUP_MS) sweep of ended rooms
Sweep ==
  /\ rooms = "present" /\ room.phase = "ended"
  /\ Apply(clearRoomTimers(World))
  /\ rooms' = "deleted"
  /\ UNCHANGED <<pendingTurn, gone, joining, guessing, probe, removing>>

Next ==
  \/ CreateRoom \/ JoinRoom \/ LeaveRoom \/ CloseRoom \/ StartGame \/ ChooseWord
  \/ Chat \/ Disconnect \/ Tick \/ HintReveal \/ IntermissionDelay \/ MinDrawDelay
  \/ TurnChoices \/ Sweep

Spec == Init /\ [][Next]_vars
SpecPair == InitPair /\ [][Next]_vars

\* ---- a store is configured ----------------------------------------------
\* join_room takes the store path: the handler waits for roomsCol.findOne and
\* goes on in a later step.  The other handlers' store calls return before
\* anything else runs, and each write of the phase reaches the store at once:
\* the lookup answers a waiting room exactly when the room is registered and
\* waiting.  A join that resumes after the room left the registry would make
\* a second room object; it is not followed.  The behaviours followed are those
\* of connections whose lookup as a newcomer may be overtaken by other
\* handlers (a member's is not) while the word cache is fresh
\* (scope.refresh), up to the end of the first round; the hint and min-draw
\* callbacks and the sweep are left to Spec.
InitStore ==
  /\ lim = NoCalls /\ joining = {} /\ guessing = {} /\ probe = NoProbe /\ removing = {}
  /\ rooms = "absent"
  /\ room = NewRoom
  /\ live = NoTimers
  /\ pendingTurn = FALSE
  /\ gone = {}
  /\ gameOvers = 0
  /\ scope = [rounds |-> MaxRound - 1, scores |-> FALSE, maxPlayers |-> MAX_PLAYERS - 1,
              refresh |-> FALSE]

JoinLookup ==
  \E s \in Alive, allow \in BOOLEAN :
    /\ allow /\ s \notin joining /\ s \notin Range(room.players)
    /\ rooms = "present" /\ room.phase = "waiting"
    /\ joining' = joining \cup {s}
    /\ UNCHANGED <<rooms, room, live, pendingTurn, gone, gameOvers, lim, guessing, scope, probe, removing>>

JoinResume ==
  \E s \in joining, tg \in TgIds \cup {NULL} :
    /\ rooms = "present"
    /\ Apply(join_room_found(World, s, tg))
    /\ joining' = joining \ {s}
    /\ UNCHANGED <<rooms, pendingTurn, gone, guessing, probe, removing>>

\* a member joins again (to refresh its name or tgId) while the room waits:
\* its lookup is answered before any other handler runs
JoinAgain ==
  \E s \in Alive \ joining, tg \in TgIds \cup {NULL} :
    /\ rooms = "present" /\ room.phase = "waiting" /\ s \in Range(room.players)
    /\ Apply(join_room_found(World, s, tg))
    /\ UNCHANGED <<rooms, pendingTurn, gone, joining, guessing, probe, removing>>

NextStore ==
  \/ CreateRoom \/ JoinLookup \/ JoinResume \/ JoinAgain \/ LeaveRoom \/ CloseRoom
  \/ StartGame \/ ChooseWord \/ Chat \/ Disconnect \/ Tick \/ IntermissionDelay
SpecStore == InitStore /\ [][NextStore]_vars

\* the chat handler as well waits for the store (incrementScore and
\* addToTotalScore are awaited when usersCol is set): a correct guess is
\* credited in one step and announced, with the all-guessed check, in a later
\* one.  Two connections are followed through the first round; closing,
\* sweeping and the hint callback are left to Spec.
InitGuess ==
  /\ lim = NoCalls /\ joining = {} /\ guessing = {} /\ probe = NoProbe /\ removing = {}
  /\ rooms = "absent"
  /\ room = NewRoom
  /\ live = NoTimers
  /\ pendingTurn = FALSE
  /\ gone = {"s3"}
  /\ gameOvers = 0
  /\ scope = [rounds |-> MaxRound - 1, scores |-> FALSE, maxPlayers |-> MAX_PLAYERS,
              refresh |-> FALSE]

ChatCredit ==
  \E s \in Alive \ guessing, text \in WordInputs, allow \in BOOLEAN :
    /\ chat_acts(s, text, allow)
    /\ Apply(guessCredit(World, s))
    /\ guessing' = guessing \cup {s}
    /\ UNCHANGED <<rooms, pendingTurn, gone, joining, probe, removing>>

ChatResume ==
  \E s \in guessing, late \in BOOLEAN :
    /\ rooms = "present"
    /\ late => live.minDraw.now = 0
    /\ Apply(guessAnnounce(World, s, late))
    /\ guessing' = guessing \ {s}
    /\ UNCHANGED <<rooms, pendingTurn, gone, joining, probe, removing>>

NextGuess ==
  \/ CreateRoom \/ JoinLookup \/ JoinResume \/ LeaveRoom \/ StartGame \/ ChooseWord
  \/ ChatCredit \/ ChatResume \/ Disconnect \/ Tick \/ IntermissionDelay \/ MinDrawDelay
SpecGuess == InitGuess /\ [][NextGuess]_vars

\* ---- a store is configured: the removal of an emptied room ----------------
\* leave_room and disconnecting, once the room has no player left, clear its
\* timers and `await roomsCol.updateOne` before rooms.delete(code): the
\* handler is suspended with the room still registered, and goes on in a
\* later step
InitRemove ==
  /\ lim = NoCalls /\ joining = {} /\ guessing = {} /\ probe = NoProbe /\ removing = {}
  /\ rooms = "absent"
  /\ room = NewRoom
  /\ live = NoTimers
  /\ pendingTurn = FALSE
  /\ gone = {}
  /\ gameOvers = 0
  /\ scope = [rounds |-> MaxRound - 1, scores |-> FALSE, maxPlayers |-> MAX_PLAYERS,
              refresh |-> FALSE]

\* leave_room up to its await (to its end when players remain)
LeaveWrite ==
  \E s \in Alive \ removing :
    /\ leave_room_acts(s)
    /\ Apply(leave_room(World, s))
    /\ removing' = IF Len(room'.players) = 0 THEN removing \cup {s} ELSE removing
    /\ UNCHANGED <<rooms, pendingTurn, gone, joining, guessing, probe>>

\* disconnecting up to its await (to its end when players remain)
DisconnectWrite ==
  \E s \in Alive \ removing :
    /\ rooms = "present" /\ s \in Range(room.players)
    /\ Apply(disconnecting(World, s))
    /\ removing' = IF Len(room'.players) = 0 THEN removing \cup {s} ELSE removing
    /\ gone' = IF s = room.hostId THEN gone \cup {s} ELSE gone
    /\ UNCHANGED <<rooms, pendingTurn, joining, guessing, probe>>

\* the write returned: rooms.delete(code)
RemoveDelete ==
  \E s \in removing :
    /\ removing' = removing \ {s}
    /\ rooms' = IF rooms = "present" THEN "deleted" ELSE rooms
    /\ UNCHANGED <<room, live, pendingTurn, gone, gameOvers, lim, joining, guessing, scope, probe>>

NextRemove ==
  \/ CreateRoom \/ JoinLookup \/ JoinResume \/ LeaveWrite \/ DisconnectWrite
  \/ RemoveDelete \/ CloseRoom \/ StartGame \/ Sweep
SpecRemove == InitRemove /\ [][NextRemove]_vars

\* ---- the rate limiter on its own ----------------------------------------
\* a call of allow() on limiter i at the present time
AllowAt(l, i) ==
  LET r == limiterAllow(l.times[i], l.clock)
  IN [l EXCEPT !.times[i] = r.times,
               !.admitted[i] = IF r.ok THEN Append(@, l.clock) ELSE @,
               !.denied[i] = @ \/ ~r.ok]
AllowCall ==
  \E i \in Limiters :
    /\ lim' = AllowAt(lim, i)
    /\ UNCHANGED <<rooms, room, live, pendingTurn, gone, gameOvers, joining, guessing, scope, probe, removing>>
\* time passes
ClockAdvance ==
  /\ lim.clock < MaxClock
  /\ lim' = [lim EXCEPT !.clock = @ + 1]
  /\ UNCHANGED <<rooms, room, live, pendingTurn, gone, gameOvers, joining, guessing, scope, probe, removing>>
NextLimiter == AllowCall \/ ClockAdvance
SpecLimiter == Init /\ [][NextLimiter]_vars

\* ---- isCloseGuess on its own ---------------------------------------------
\* the characters of the arguments: a lower-case and an upper-case letter and
\* a blank
Letters == {"a", "X", " "}
\* every string of these characters up to this length is an argument
MaxStr == 3
ShortStrings == UNION {[1..n -> Letters] : n \in 1..MaxStr}
\* longer arguments, around a word of eight characters (for which a quarter
\* of the length is 2): the word, the word in upper case between blanks,
\* substitutions, a rotation, and shorter and longer neighbours
word8 == <<"a", "x", "a", "x", "a", "x", "a", "x">>
LongStrings ==
  { word8,
    <<" ", "A", "X", "A", "X", "A", "X", "A", "X", " ">>,
    <<"a", "x", "a", "x", "a", "x", "a", "a">>,
    <<"x", "x", "a", "x", "a", "x", "a", "a">>,
    <<"x", "x", "x", "x", "a", "x", "a", "a">>,
    <<"x", "a", "x", "a", "x", "a", "x", "a">>,
    <<"a", "x", "a", "x", "a", "x">>,
    <<"a", "x", "a", "x", "a", "x", "a">>,
    <<"a", "x", "a", "a", "a", "x", "a", "x", "a", "x">>,
    <<"a", "x", "a", "x", "a", "x", "a", "x", "a", "x">>,
    <<"a", "x", "a", "x", "a", "x", "a", "x", "a", "x", "a">> }
CloseInputs == ShortStrings \cup LongStrings

InitClose ==
  /\ lim = NoCalls /\ joining = {} /\ guessing = {} /\ removing = {}
  /\ probe \in [guess : CloseInputs, word : CloseInputs, res : {"none"}]
  /\ rooms = "absent"
  /\ room = NewRoom
  /\ live = NoTimers
  /\ pendingTurn = FALSE
  /\ gone = {}
  /\ gameOvers = 0
  /\ scope = [rounds |-> MaxRound, scores |-> FALSE, maxPlayers |-> MAX_PLAYERS,
              refresh |-> TRUE]
\* the call isCloseGuess(guess, word)
CloseGuess ==
  /\ probe.res = "none"
  /\ probe' = [probe EXCEPT !.res = IF isCloseGuess(probe.guess, probe.word)
                                    THEN "close" ELSE "far"]
  /\ UNCHANGED <<rooms, room, live, pendingTurn, gone, gameOvers, lim, joining, guessing, scope,
               removing>>
NextClose == CloseGuess
SpecClose == InitClose /\ [][NextClose]_vars

\* the calls the steps leave out change neither the room nor the timers
IdleCallsChangeNothing ==
  LET Idle(w) == w.room = room /\ w.live = live /\ ~w.cont
  IN /\ \A s \in Alive, allow \in BOOLEAN :
          /\ (rooms # "deleted" /\ ~create_room_acts(s, allow)) => Idle(create_room(World, s, allow))
          /\ ~join_room_acts(s, allow) => Idle(join_room(World, s, allow))
          /\ ~start_game_acts(s, allow) => Idle(start_game(World, s, allow))
     /\ \A s \in Alive :
          /\ ~leave_room_acts(s) => Idle(leave_room(World, s))
          /\ ~close_room_acts(s) => Idle(close_room(World, s))
          /\ s \notin Range(room.players) => Idle(disconnecting(World, s))
     /\ \A s \in Alive, word \in WordInputs :
          ~choose_word_acts(s, word) => Idle(choose_word(World, s, word))
     /\ \A s \in Alive, text \in WordInputs, allow \in BOOLEAN, late \in BOOLEAN :
          ~chat_acts(s, text, allow) => Idle(chat(World, s, text, allow, late))

\* ---- properties ---------------------------------------------------------
\* the drawer rooms.js resolves
OrderDrawer(r) == At(Order(r), r.drawerIndex)
Handles(r) == <<r.tickHandle, r.hintHandle, r.intermissionHandle>>
\* the members of playerOrder still connected, as nextTurnOrRound filters them
Connected(r) == Filter(Order(r), Range(r.players))
\* playerOrder lists exactly the members, each once
FixedMembership(r) ==
  r.hasOrder /\ Len(r.playerOrder) = Len(r.players) /\ Range(r.playerOrder) = Range(r.players)
\* the world in which the intermission timeout id has just fired
Fired(id) == [World EXCEPT !.live = Expire(@, id)]

\* C1: every change of room.phase is one of waiting -> choosing, choosing ->
\* drawing, drawing -> intermission, intermission -> choosing, intermission ->
\* ended, choosing or drawing -> ended, or any phase -> ended.
PhaseEdges ==
  {<<"waiting", "choosing">>, <<"choosing", "drawing">>, <<"drawing", "intermission">>,
   <<"intermission", "choosing">>, <<"intermission", "ended">>, <<"choosing", "ended">>,
   <<"drawing", "ended">>, <<"waiting", "ended">>}
C1_PhaseChanges ==
  [][room'.phase # room.phase => <<room.phase, room'.phase>> \in PhaseEdges]_vars

\* C2: choose_word acts only when the phase is choosing, the caller is the
\* drawer (by either resolution) and the word is one of the choices; any other
\* call leaves phase, currentWord, timer and the timers as they were.
C2_ChooseWordGuarded ==
  \A s \in Alive, word \in WordInputs :
    LET w == choose_word(World, s, word)
        legit == /\ rooms = "present" /\ room.phase = "choosing"
                 /\ s \in {KeyDrawer(room), OrderDrawer(room)}
                 /\ word \in room.choices
    IN ~legit => /\ w.room.phase = room.phase
                 /\ w.room.currentWord = room.currentWord
                 /\ w.room.timer = room.timer
                 /\ Handles(w.room) = Handles(room)
                 /\ w.live = live

\* C3: start_game on a waiting room of at least two players sets round 1,
\* drawerIndex 0, playerOrder to the members in join order and phase choosing
\* and clears currentWord and hint, touching nothing else of the room; any
\* other start_game leaves the room and the timers exactly as they were.
C3_StartGameFrame ==
  \A s \in Alive, allow \in BOOLEAN :
    LET w == start_game(World, s, allow)
    IN IF allow /\ rooms = "present" /\ room.phase = "waiting" /\ Len(room.players) >= 2
       THEN /\ w.room = [room EXCEPT !.round = 1, !.drawerIndex = 0, !.phase = "choosing",
                                     !.playerOrder = room.players, !.hasOrder = TRUE,
                                     !.currentWord = NoWord, !.hint = NoWord]
            /\ w.cont
       ELSE w.room = room /\ w.live = live /\ ~w.cont
\* a game has just been started
C3_Started ==
  /\ rooms = "present" /\ room.phase = "choosing" /\ room.round = 1 /\ room.drawerIndex = 0
  /\ Len(room.players) >= 2 /\ room.hasOrder /\ room.playerOrder = room.players
  /\ room.currentWord = NoWord /\ room.hint = NoWord /\ room.choices # {}

\* C4: while playerOrder lists exactly the N >= 2 members, the advance the
\* intermission timeout runs moves drawerIndex to the next position of
\* playerOrder, keeps playerOrder, and adds one to round exactly when the
\* index wraps from N - 1 to 0: every member draws once per round, in order.
C4_Rotation ==
  \A id \in live.inter :
    (room.phase # "ended" /\ FixedMembership(room) /\ Len(room.players) >= 2) =>
      LET w == nextTurnOrRound(Fired(id))
          N == Len(room.playerOrder)
      IN /\ w.room.playerOrder = room.playerOrder
         /\ w.room.drawerIndex = (room.drawerIndex + 1) % N
         /\ w.room.round = room.round + (IF room.drawerIndex = N - 1 THEN 1 ELSE 0)
\* three members, the third has drawn and the advance has begun round 2
C4_Wrapped ==
  /\ room.phase = "choosing" /\ room.round = 2 /\ room.drawerIndex = 0
  /\ Len(room.players) = 3 /\ FixedMembership(room)

\* C5: with the two players in the room from the start of the game on (no one
\* can join a started game, so two members means nobody left), the game
\* emits game_over exactly once: never a second time.
C5_OneGameOver == Len(room.players) = 2 => gameOvers <= 1

\* C6: round is at least 1, and round exceeds maxRounds only in phase ended.
C6_RoundWithinMax ==
  room.round >= 1 /\ (room.round > maxRounds => room.phase = "ended")

C8_OneTimerEach ==
  /\ Cardinality(live.tick) <= 1 /\ live.tick \subseteq {room.tickHandle}
  /\ Cardinality(live.hint) <= 1 /\ {t.id : t \in live.hint} \subseteq {room.hintHandle}
  /\ Cardinality(live.inter) <= 1 /\ live.inter \subseteq {room.intermissionHandle}
\* a later turn's timers are armed: those of the turn before were cancelled
C8_Rearmed ==
  /\ room.phase = "drawing" /\ room.drawerIndex = 1
  /\ Cardinality(live.tick) = 1 /\ Cardinality(live.hint) = 1 /\ live.inter = {}

\* C9: a tick interval or a hint interval is live only in phase drawing.
C9_TickHintOnlyDrawing ==
  (live.tick # {} \/ live.hint # {}) => room.phase = "drawing"
\* a turn was ended (here by the last guess) and its tick and hint are gone
C9_TurnEnded ==
  /\ room.phase = "intermission" /\ room.guessed # {} /\ room.timer > 0
  /\ live.tick = {} /\ live.hint = {} /\ live.inter # {}

\* C10: a timer callback that fires after the room left the phase and turn it
\* was armed in changes nothing and emits nothing (a tick or hint callback may
\* only retire itself): tick and hint outside drawing, the intermission
\* timeout outside intermission, the delayed end-of-turn of the chat handler
\* outside drawing or in a turn after the one that armed it.
C10_StaleCallbacksInert ==
  /\ \A tick \in live.tick :
       room.phase # "drawing" =>
         LET w == tickCallback(World, tick)
         IN w.room.phase = room.phase /\ w.room.timer = room.timer /\ w.out = <<>>
  /\ \A t \in live.hint : \A idx \in DOMAIN t.word :
       room.phase # "drawing" =>
         LET w == hintCallback(World, t, idx)
         IN w.room = room /\ w.out = <<>>
  /\ \A id \in live.inter :
       room.phase # "intermission" =>
         LET w == nextTurnOrRound(Fired(id))
         IN w.room = room /\ w.out = <<>>
  /\ (live.minDraw.now > 0 /\ room.phase # "drawing") =>
       LET w == minDrawCallback(World, "now") IN w.room = room /\ w.out = <<>>
  /\ live.minDraw.past > 0 =>
       LET w == minDrawCallback(World, "past") IN w.room = room /\ w.out = <<>>

\* C15: create_room for a code the registry already holds returns that room
\* and changes nothing of it (phase, round, drawerIndex, players, scores,
\* currentWord) nor of its timers, whatever the phase of its game.
C15_CreateIdempotent ==
  rooms = "present" =>
    \A s \in Alive :
      LET w == create_room(World, s, TRUE)
      IN w.room = room /\ w.live = live /\ ~w.cont
\* a game is being drawn and a connection other than the host may call
C15_GameRunning ==
  /\ rooms = "present" /\ room.phase = "drawing" /\ live.tick # {}
  /\ Alive \ {room.hostId} # {} /\ room.guessed # {}

\* C16: when create_room answers room_created to the caller, the room of the
\* code is in phase waiting and the caller is its host.
Acked(out, s) == \E i \in DOMAIN out : out[i].ev = "room_created" /\ out[i].to = s
C16_CreatedIsWaitingHost ==
  \A s \in Alive :
    LET w == create_room(World, s, TRUE)
    IN Acked(w.out, s) => (w.room.phase = "waiting" /\ w.room.hostId = s)

\* C17: once the last player has left and the room is removed from the
\* registry, none of its timers is live and no callback armed for it changes
\* the room or emits anything.
C17_RemovedRoomSilent ==
  (rooms = "deleted" /\ Len(room.players) = 0) =>
    /\ live.tick = {} /\ live.hint = {} /\ live.inter = {}
    /\ \A t \in {"now", "past"} :
         live.minDraw[t] > 0 =>
           LET w == minDrawCallback(World, t) IN w.room = room /\ w.out = <<>>

\* C12: in phase drawing the tick that finds the timer at 0 or every
\* non-drawer with guessed set ends the turn (phase intermission, tick and
\* hint cancelled, turn_end with the word, one intermission timeout armed),
\* such a tick is always to come, and no tick, guess or delayed end-of-turn
\* ends the turn while the timer is above 0 and some non-drawer has not guessed.
TurnEnds(out, word) == \E i \in DOMAIN out : out[i].ev = "turn_end" /\ out[i].x = word
C12_TurnEndsOnTime ==
  (rooms = "present" /\ room.phase = "drawing") =>
    /\ live.tick # {}
    /\ \A tick \in live.tick :
         LET w == tickCallback(World, tick)
         IN IF room.timer - 1 <= 0 \/ allGuessed(room)
            THEN /\ w.room.phase = "intermission" /\ TurnEnds(w.out, room.currentWord)
                 /\ w.live.tick = {} /\ w.live.hint = {} /\ Cardinality(w.live.inter) = 1
            ELSE w.room.phase = "drawing" /\ ~TurnEnds(w.out, room.currentWord)
    /\ \A s \in Alive, text \in WordInputs, late \in BOOLEAN :
         LET w == chat(World, s, text, TRUE, late)
         IN w.room.phase = "intermission" => allGuessed(w.room)
    /\ \A t \in {"now", "past"} :
         live.minDraw[t] > 0 =>
           (minDrawCallback(World, t).room.phase = "intermission" =>
              (room.timer <= 0 \/ allGuessed(room)))

\* C13: allow() answers true exactly when fewer than count of the calls the
\* limiter admitted so far lie within the last windowMs (the bound included);
\* so no stretch of windowMs holds more than count admissions, and a call
\* later than windowMs after the oldest retained admission is admitted.
Recent(i) == {k \in DOMAIN lim.admitted[i] : lim.clock - lim.admitted[i][k] <= windowMs}
C13_AllowWithinWindow ==
  \A i \in Limiters :
    LET times == lim.times[i]
    IN /\ limiterAllow(times, lim.clock).ok <=> Cardinality(Recent(i)) < count
       /\ \A from \in 0..MaxClock :
            Cardinality({k \in DOMAIN lim.admitted[i] :
                           from <= lim.admitted[i][k] /\ lim.admitted[i][k] <= from + windowMs}) <= count
       /\ (times # <<>> /\ lim.clock - Head(times) > windowMs) => limiterAllow(times, lim.clock).ok
\* a limiter refused a call and, the window over, has admitted calls again
C13_AdmittedAgain ==
  \E i \in Limiters : lim.denied[i] /\ Len(lim.admitted[i]) > count

\* C14: a refused call records no timestamp, so that every later call is
\* answered as if the refused one had not been made; and a call on one
\* limiter leaves the other limiter's array alone.
C14_DeniedLeavesNoTrace ==
  \A i \in Limiters :
    LET r == limiterAllow(lim.times[i], lim.clock)
    IN /\ ~r.ok => /\ r.times = shiftOld(lim.times[i], lim.clock)
                   /\ \A later \in lim.clock..(MaxClock + windowMs + 1) :
                        limiterAllow(r.times, later) = limiterAllow(lim.times[i], later)
       /\ \A j \in Limiters \ {i} : AllowAt(lim, i).times[j] = lim.times[j]
\* one limiter is full and has refused a call while the other has admitted some
C14_OneFull ==
  \E i \in Limiters :
    /\ lim.denied[i] /\ ~limiterAllow(lim.times[i], lim.clock).ok
    /\ \E j \in Limiters \ {i} : lim.times[j] # <<>> /\ ~lim.denied[j]


\* C19: the room never holds more than MAX_PLAYERS players, whatever the
\* order in which the joins waiting on the store lookup go on; and a join that
\* goes on when the room (after the eviction of its identity) is full adds
\* nobody and answers ROOM_FULL to the caller.
Refused(out, s) ==
  \E i \in DOMAIN out : out[i].ev = "app_error" /\ out[i].to = s /\ out[i].x = "ROOM_FULL"
C19_AtMostMaxPlayers ==
  /\ Len(room.players) <= scope.maxPlayers
  /\ Cardinality(Range(room.players)) = Len(room.players)
  /\ rooms = "present" =>
       \A s \in joining, tg \in TgIds \cup {NULL} :
         LET w == join_room_found(World, s, tg)
         IN /\ Len(w.room.players) <= scope.maxPlayers
            /\ s \notin Range(w.room.players) <=> Refused(w.out, s)
\* two joins passed the lookup while the room had one place left; one has
\* taken it and the other is still to go on
C19_FullWithJoinWaiting ==
  /\ rooms = "present" /\ Len(room.players) = scope.maxPlayers
  /\ \E s \in joining : s \notin Range(room.players)
                          /\ Refused(join_room_found(World, s, NULL).out, s)
\* C20: while a game is in progress (phase choosing, drawing or intermission)
\* in a room that has a player, drawerIndex is an index of playerOrder and the
\* connection at that index is in players.
C20_DrawerIsAPlayer ==
  (rooms = "present" /\ room.phase \in {"choosing", "drawing", "intermission"}
     /\ Len(room.players) > 0) =>
    /\ 0 <= room.drawerIndex /\ room.drawerIndex < Len(Order(room))
    /\ OrderDrawer(room) \in Range(room.players)
\* C11: in phase drawing, when a player other than the drawer, not yet marked
\* guessed, sends the current word (in any letter case), the player is marked
\* guessed and gains 100 + max(0, timer), the drawer of the turn (a player of
\* the room) gains 20, and no other score changes; guessScoreForTime never
\* gives less than 100.
C11_GuessCredits ==
  /\ \A t \in (0 - 2)..roundTime :
       guessScoreForTime(t) = 100 + (IF t < 0 THEN 0 ELSE t) /\ drawerBonus = 20
  /\ (rooms = "present" /\ room.phase = "drawing" /\ room.currentWord # NoWord
        /\ OrderDrawer(room) \in Range(room.players)) =>
       \A s \in Range(room.players) \ (room.guessed \cup {OrderDrawer(room)}) :
         \A text \in WordInputs, late \in BOOLEAN :
           toLowerCase(text) = toLowerCase(room.currentWord) =>
             LET w == chat(World, s, text, TRUE, late)
                 d == OrderDrawer(room)
             IN /\ s \in w.room.guessed
                /\ w.room.score[s] = room.score[s] + 100 + Max(0, room.timer)
                /\ w.room.score[d] = room.score[d] + 20
                /\ \A o \in Sock \ {s, d} : w.room.score[o] = room.score[o]
\* C18: close_room from the host (the connection hostId, or a player whose
\* tgId is hostTgId) ends the room and leaves no tick, hint or intermission
\* timer live; from any other connection it changes neither the room nor its
\* timers and sends only app_error NOT_HOST to the caller.
HostOf(r, s) ==
  \/ s = r.hostId
  \/ s \in Range(r.players) /\ r.tgId[s] # NULL /\ r.tgId[s] = r.hostTgId
C18_CloseOnlyByHost ==
  rooms = "present" =>
    \A s \in Sock :
      LET w == close_room(World, s)
      IN IF HostOf(room, s)
         THEN /\ w.room.phase = "ended"
              /\ w.live.tick = {} /\ w.live.hint = {} /\ w.live.inter = {}
         ELSE /\ w.room = room /\ w.live = live
              /\ w.out = <<Ev("app_error", s, "NOT_HOST")>>
\* a game is running with its timers live, the host by identity is not the
\* connection hostId names, and a player who is no host is present
C18_HostByIdentity ==
  /\ rooms = "present" /\ room.phase = "drawing" /\ live.tick # {}
  /\ \E s \in Range(room.players) : s # room.hostId /\ HostOf(room, s)
  /\ \E s \in Range(room.players) : ~HostOf(room, s)
\* C21: a step that changes the phase, the members or a score publishes a
\* room_state, and the last room_state of the step shows the phase, the
\* players and the scores the step ends with.
RoomStates(out) == {i \in DOMAIN out : out[i].ev = "room_state"}
Published(w) ==
  (w.room.phase # room.phase \/ w.room.players # room.players \/ w.room.score # room.score) =>
    /\ RoomStates(w.out) # {}
    /\ LET last == CHOOSE i \in RoomStates(w.out) : \A j \in RoomStates(w.out) : j <= i
           x == w.out[last].x
       IN x.phase = w.room.phase /\ x.players = w.room.players /\ x.score = w.room.score
C21_SnapshotFollows ==
  rooms = "present" =>
    /\ \A s \in Alive :
         /\ Published(start_game(World, s, TRUE))
         /\ Published(leave_room(World, s))
         /\ Published(disconnecting(World, s))
         /\ Published(close_room(World, s))
         /\ Published(join_room(World, s, TRUE))
         /\ \A word \in WordInputs :
              /\ Published(choose_word(World, s, word))
              /\ \A late \in BOOLEAN : Published(chat(World, s, word, TRUE, late))
    /\ \A tick \in live.tick : Published(tickCallback(World, tick))
    /\ \A id \in live.inter : Published(nextTurnOrRound(Fired(id)))
\* C22: in phase drawing the hint is the current word with every position
\* either masked or showing the word's letter; a firing of the hint interval
\* discloses exactly one position that was masked; and no step that stays in
\* the drawing phase of the turn masks a position that was disclosed.
\* (maskWord keeps a space and masks or shows every other character.)
Rendering(hint, word) ==
  /\ Len(hint) = Len(word)
  /\ \A i \in DOMAIN word :
       IF word[i] = " " THEN hint[i] = " " ELSE hint[i] \in {"_", word[i]}
Disclosed(hint) == {i \in DOMAIN hint : hint[i] \notin {"_", " "}}
KeepsDisclosed(w) ==
  (w.room.phase = "drawing" /\ w.room.round = room.round
     /\ w.room.drawerIndex = room.drawerIndex) =>
    \A i \in Disclosed(room.hint) : i \in DOMAIN w.room.hint /\ w.room.hint[i] = room.hint[i]
C22_HintDisclosure ==
  /\ \A word \in {<<"a", " ", "x">>, ox} : \A revealed \in SUBSET (DOMAIN word) :
       Rendering(maskWord(word, revealed), word)
  /\ (rooms = "present" /\ room.phase = "drawing") =>
       /\ Rendering(room.hint, room.currentWord)
       /\ \A t \in live.hint : \A idx \in HintIndices(t) :
            LET w == hintCallback(World, t, idx)
            IN /\ Disclosed(w.room.hint) = Disclosed(room.hint) \cup {idx}
               /\ idx \notin Disclosed(room.hint)
               /\ Rendering(w.room.hint, room.currentWord)
       /\ \A s \in Alive, word \in WordInputs :
            /\ KeepsDisclosed(choose_word(World, s, word))
            /\ \A late \in BOOLEAN : KeepsDisclosed(chat(World, s, word, TRUE, late))
       /\ \A tick \in live.tick : KeepsDisclosed(tickCallback(World, tick))
\* C23: the chat handler that has credited a correct guess goes on to its
\* all-guessed check with the room as the credit left it: still in phase
\* drawing; and it calls endTurn only on a room in phase drawing.
C23_GuessHandledAtOnce ==
  \A s \in guessing :
    rooms = "present" =>
      /\ room.phase = "drawing"
      /\ \A late \in BOOLEAN :
           TurnEnds(guessAnnounce(World, s, late).out, room.currentWord) => room.phase = "drawing"
\* C24: a room in phase choosing never waits for a refresh of the word cache
\* before the choices of its turn are set and sent.
C24_ChoicesNeverWait == ~pendingTurn
\* C25: the choices a turn offers are three different words of the word
\* pool; randomChoices(arr, n) gives min(n, length(arr)) words of arr.
C25_ThreeDistinctChoices ==
  /\ \A n \in 0..4 : \A c \in randomChoices(cachedWords, n) :
       Len(c) = Min(n, Len(cachedWords)) /\ Range(c) \subseteq Range(cachedWords)
  /\ (rooms = "present" /\ room.phase = "choosing" /\ ~pendingTurn) =>
       /\ room.choices \subseteq Range(cachedWords)
       /\ Cardinality(room.choices) = 3
\* C26: no two players of the room carry the same tgId.
C26_OneConnectionPerIdentity ==
  \A p, q \in Range(room.players) :
    (p # q /\ room.tgId[p] # NULL) => room.tgId[p] # room.tgId[q]
\* C27: a join_room that is refused (by the limiter, or with an app_error:
\* room not found, not joinable, full) leaves the room as it was: players,
\* playerOrder, hostId and hostTgId are those before the call.
Rejected(out, s) == \E i \in DOMAIN out : out[i].ev = "app_error" /\ out[i].to = s
SameRoom(r) ==
  /\ r.players = room.players /\ r.playerOrder = room.playerOrder /\ r.hasOrder = room.hasOrder
  /\ r.hostId = room.hostId /\ r.hostTgId = room.hostTgId
C27_RefusedJoinChangesNothing ==
  /\ \A s \in Alive :
       /\ SameRoom(join_room(World, s, FALSE).room)
       /\ LET w == join_room(World, s, TRUE) IN Rejected(w.out, s) => SameRoom(w.room)
  /\ rooms = "present" =>
       \A s \in joining, tg \in TgIds \cup {NULL} :
         LET w == join_room_found(World, s, tg) IN Rejected(w.out, s) => SameRoom(w.room)
\* C28: a join_room whose store lookup throws is decided by the registry as
\* the in-memory path decides: with no room for the code it is refused with
\* ROOM_NOT_FOUND and adds no player to any room, and with a room that is not
\* waiting it is refused as not joinable and the room is left as it is.
ErrorSent(out, s, codes) ==
  \E i \in DOMAIN out : out[i].ev = "app_error" /\ out[i].to = s /\ out[i].x \in codes
C28_FailedLookupFallsBack ==
  \A s \in Alive \ Range(room.players), tg \in TgIds \cup {NULL} :
    LET w == join_room_lookup_failed(World, s, tg)
        m == join_room(World, s, TRUE)
    IN /\ rooms # "present" =>
            ErrorSent(m.out, s, {"ROOM_NOT_FOUND"}) /\ ErrorSent(w.out, s, {"ROOM_NOT_FOUND"})
            /\ w.room.players = room.players
       /\ (rooms = "present" /\ room.phase # "waiting") =>
            ErrorSent(m.out, s, {"ROOM_ENDED", "ROOM_NOT_WAITING"})
            /\ ErrorSent(w.out, s, {"ROOM_ENDED", "ROOM_NOT_WAITING"}) /\ SameRoom(w.room)

\* the Levenshtein edit distance of a and b is at most k: b is reached from a
\* by at most k insertions, deletions and substitutions of one character (the
\* defining recurrence of the distance, followed while the edits left suffice)
RECURSIVE WithinEdits(_, _, _)
WithinEdits(a, b, k) ==
  IF k < 0 THEN FALSE
  ELSE IF Len(a) = 0 THEN Len(b) <= k
  ELSE IF Len(b) = 0 THEN Len(a) <= k
  ELSE \/ Head(a) = Head(b) /\ WithinEdits(Tail(a), Tail(b), k)
       \/ WithinEdits(Tail(a), Tail(b), k - 1)
       \/ WithinEdits(Tail(a), b, k - 1)
       \/ WithinEdits(a, Tail(b), k - 1)
\* the arguments of the call after lower-casing and trimming, the bound a
\* quarter of the word's length gives, and the difference of the lengths
ProbeGuess == trim(toLowerCase(probe.guess))
ProbeWord == trim(toLowerCase(probe.word))
ProbeBound == Max(1, (Len(ProbeWord) * 25) \div 100)
ProbeDiff ==
  IF Len(ProbeGuess) >= Len(ProbeWord) THEN Len(ProbeGuess) - Len(ProbeWord)
  ELSE Len(ProbeWord) - Len(ProbeGuess)
\* C29: for non-empty lower-cased and trimmed guess and word, isCloseGuess
\* returns true exactly when their Levenshtein distance is at most
\* max(1, floor(length(word) * 0.25)); and a pair the early test on the
\* lengths rejects has a distance above that bound
C29_CloseIffWithinDistance ==
  (probe.res # "none" /\ Len(ProbeGuess) > 0 /\ Len(ProbeWord) > 0) =>
    /\ (probe.res = "close") <=> WithinEdits(ProbeGuess, ProbeWord, ProbeBound)
    /\ ProbeDiff > ProbeBound => ~WithinEdits(ProbeGuess, ProbeWord, ProbeBound)
\* a guess exactly two edits from a word of eight characters or more was
\* found close
C29_CloseAtTwoEdits ==
  /\ probe.res = "close"
  /\ ProbeBound = 2
  /\ ProbeDiff = 2
  /\ ~WithinEdits(ProbeGuess, ProbeWord, 1)

\* no connection occurs twice in the array
NoDuplicate(arr) == \A i, j \in DOMAIN arr : arr[i] = arr[j] => i = j
\* the array without connection s
Others(arr, s) == Filter(arr, Sock \ {s})
\* the room after connection s left it or was disconnected (players.delete and
\* the splice out of playerOrder), and after a join_room of s with identity tg
\* that went on past a failed lookup (players.set and the late-join policy)
AfterRemoval(s) == removeFromPlayerOrder(DeletePlayer(room, s), s)
AfterLateJoin(s, tg) == join_room_lookup_failed(World, s, tg).room
\* C30: splicing a connection out of playerOrder (leave, disconnect) or into
\* it (late join, right after the current drawer) keeps the relative order of
\* all other connections, introduces no duplicate, and, unless the removed
\* connection is the current drawer, leaves playerOrder[drawerIndex] the
\* connection it was
C30_SplicePreservesOrder ==
  (rooms = "present" /\ room.hasOrder) =>
    /\ NoDuplicate(room.playerOrder)
    /\ \A s \in Range(room.playerOrder) :
         LET r == AfterRemoval(s)
         IN /\ r.playerOrder = Others(room.playerOrder, s)
            /\ NoDuplicate(r.playerOrder)
            /\ OrderDrawer(room) # s => OrderDrawer(r) = OrderDrawer(room)
    /\ \A s \in Alive \ (Range(room.players) \cup Range(room.playerOrder)),
          tg \in TgIds \cup {NULL} :
         LET r == AfterLateJoin(s, tg)
         IN r.playerOrder # room.playerOrder =>
              /\ Others(r.playerOrder, s) = room.playerOrder
              /\ NoDuplicate(r.playerOrder)
              /\ OrderDrawer(r) = OrderDrawer(room)

\* C31: ended is terminal: while the room stays in the registry, no step
\* (client call, continuation or timer callback) taken in phase ended changes
\* the phase or arms a timer.
C31_EndedIsTerminal ==
  [][(rooms = "present" /\ rooms' = "present" /\ room.phase = "ended") =>
       /\ room'.phase = "ended"
       /\ live'.tick \subseteq live.tick /\ live'.inter \subseteq live.inter
       /\ {t.id : t \in live'.hint} \subseteq {t.id : t \in live.hint}
       /\ live'.minDraw.now + live'.minDraw.past <= live.minDraw.now + live.minDraw.past]_vars

\* C32: a chat message of the current drawer that equals the secret word
\* during drawing changes no player's score and no guessed flag.
C32_DrawerNotCredited ==
  (rooms = "present" /\ room.phase = "drawing" /\ room.currentWord # NoWord) =>
    \A s \in Range(room.players) \cap {OrderDrawer(room), KeyDrawer(room)}, late \in BOOLEAN :
      LET w == chat(World, s, room.currentWord, TRUE, late)
      IN w.room.score = room.score /\ w.room.guessed = room.guessed

\* the chat messages of players relayed to the room
Relayed(out) == {out[i].x : i \in {j \in DOMAIN out : out[j].ev = "chat" /\ out[j].to = "room"}}
\* C33: while the phase is drawing, a chat message whose text equals the
\* secret word (whatever its case) is never relayed to the room, whoever the
\* member that sends it: one who has guessed this turn and the drawer included.
C33_SecretNeverRelayed ==
  (rooms = "present" /\ room.phase = "drawing" /\ room.currentWord # NoWord) =>
    \A s \in Range(room.players), text \in WordInputs, late \in BOOLEAN :
      toLowerCase(text) = toLowerCase(room.currentWord) =>
        text \notin Relayed(chat(World, s, text, TRUE, late).out)

\* C34: in every state of a started game the drawer resolved as
\* playerOrder[drawerIndex] is the connection resolved from the key order of
\* the players map at drawerIndex.
C34_OneDrawer ==
  (rooms = "present" /\ room.hasOrder /\ room.phase \in {"choosing", "drawing", "intermission"}) =>
    OrderDrawer(room) = KeyDrawer(room)

\* the room after the current drawer s was disconnected and the intermission
\* timeout that follows (armed by that step, or live already) has fired
AfterDrawerLeft(s) ==
  LET w == disconnecting(World, s)
  IN {nextTurnOrRound([w EXCEPT !.live = Expire(@, id), !.out = <<>>]).room : id \in w.live.inter}
\* C35: when the current drawer is removed from a room of at least three
\* players during choosing, drawing or intermission, the next turn's drawer
\* is the connection that followed the removed one in playerOrder (wrapping),
\* and round grows exactly when the removed drawer was last in playerOrder,
\* whatever the drawer's position, index 0 included.
C35_NextAfterRemovedDrawer ==
  (/\ rooms = "present" /\ room.phase \in {"choosing", "drawing", "intermission"}
   /\ FixedMembership(room) /\ Len(room.players) >= 3
   /\ OrderDrawer(room) = KeyDrawer(room)) =>
    LET s == OrderDrawer(room)
        n == Len(room.playerOrder)
        next == At(room.playerOrder, (room.drawerIndex + 1) % n)
    IN \A r \in AfterDrawerLeft(s) :
         /\ r.round = room.round + (IF room.drawerIndex = n - 1 THEN 1 ELSE 0)
         /\ r.phase = "choosing" => OrderDrawer(r) = next

\* C36: when the current drawer's connection is removed while the phase is
\* choosing or drawing, by disconnect or by leave_room, the turn ends in that
\* step: the phase is intermission and the advance is scheduled (unless the
\* room is left empty and removed).
C36_DrawerRemovalEndsTurn ==
  (/\ rooms = "present" /\ room.phase \in {"choosing", "drawing"}
   /\ OrderDrawer(room) = KeyDrawer(room) /\ KeyDrawer(room) \in Range(room.players)
   /\ Len(room.players) >= 2) =>
    LET s == KeyDrawer(room)
        d == disconnecting(World, s)
        l == leave_room(World, s)
    IN /\ d.room.phase = "intermission" /\ d.live.inter # {}
       /\ l.room.phase = "intermission" /\ l.live.inter # {}

\* C37: a room leaves the registry only when, as it is removed, it has no
\* players or its phase is ended, under every interleaving of the handlers.
C37_RemovedEmptyOrEnded ==
  [][(rooms = "present" /\ rooms' = "deleted") =>
       (Len(room'.players) = 0 \/ room'.phase = "ended")]_vars

\* C38: a drawing phase starts with timer = the turn time of its round; while
\* the phase stays drawing every step leaves timer as it is or takes exactly
\* 1 from it (a tick), never raises it and never makes it negative: the room
\* leaves drawing after at most that many ticks.
C38_DrawingCountsDown ==
  [][(rooms = "present" /\ rooms' = "present") =>
       /\ (room.phase # "drawing" /\ room'.phase = "drawing") =>
            room'.timer = turnTime(roundTime, room'.round)
       /\ (room.phase = "drawing" /\ room'.phase = "drawing") =>
            /\ room'.timer \in {room.timer, room.timer - 1}
            /\ room'.timer >= 0]_vars

\* C39: a registered room in phase intermission has exactly one pending
\* intermission timeout, and an intermission timeout is pending only while
\* the phase is intermission (so that the intermission always ends).
C39_IntermissionHasItsDelay ==
  rooms = "present" =>
    /\ room.phase = "intermission" => Cardinality(live.inter) = 1
    /\ live.inter # {} => room.phase = "intermission"

\* C40: within one turn a player is credited for a correct guess at most
\* once: no guessed flag is set when the room enters drawing, and while the
\* phase stays drawing no flag of a player who stays in the room is reset (so
\* the guess of a player whose flag is set is never credited again), even
\* when the continuation of startTurn runs late.
C40_GuessedOncePerTurn ==
  [][(rooms = "present" /\ rooms' = "present") =>
       /\ (room.phase # "drawing" /\ room'.phase = "drawing") => room'.guessed = {}
       /\ (room.phase = "drawing" /\ room'.phase = "drawing") =>
            (room.guessed \cap Range(room'.players)) \subseteq room'.guessed]_vars
====
